---------------------------- MODULE Spec2Model ----------------------------
(***************************************************************************)
(* A model of fabricext/releases/release.py: the Release deploy strategy   *)
(* (a Transaction with a release directory layout on a remote host).       *)
(*                                                                         *)
(* The remote host is the record `host`; every Fabric call that reaches    *)
(* the host (exists, run) is one step of the process that makes it.  A     *)
(* process is one Python process holding one Release instance at a time    *)
(* and its own module-level fabric `env`.                                  *)
(*                                                                         *)
(* Python 2 / Fabric 1.x semantics are assumed (the source uses            *)
(* fabric.api and the print statement): map() is eager, run() aborts       *)
(* (SystemExit) on a non-zero exit status unless env.warn_only is set,     *)
(* error() aborts unless func=warn is given, and env.warn_only is False    *)
(* outside the `with settings(warn_only=True)` block.                      *)
(***************************************************************************)
EXTENDS Integers, Sequences, FiniteSets, TLC

(***************************************************************************)
(* Bounds of the model.                                                    *)
(***************************************************************************)
\* how many instants of the wall clock the model samples (see TimeLine)
NumInstants == 6
\* how many compensating actions the scoped body registers itself
MaxUserActions == 1
\* how many times setup is called on one manager (entry, then by the body)
MaxSetupCalls == 2
\* how many remote commands fail for a reason of the host's, in one
\* behaviour; no invocation begins once that many have failed
MaxFaults == 1
\* the scoped body calls the manager or writes env.base_dir only while the
\* host holds at most this many releases (the new one counted)
MaxBodyReleases == 1

(***************************************************************************)
(* Strings are sequences of character codes, compared as Python compares   *)
(* str values (code point by code point, a proper prefix first).           *)
(***************************************************************************)
Dash == <<45>>
Dot == <<46>>

\* one decimal digit as a character
DigitChar(d) == 48 + d

RECURSIVE Decimal(_)
\* "{0}".format(n) for an integer n >= 0: decimal digits, no padding
Decimal(n) ==
    IF n < 10 THEN <<DigitChar(n)>>
    ELSE Append(Decimal(n \div 10), DigitChar(n % 10))

RECURSIVE ZeroPad(_, _)
\* "%0<w>d" % n, as date.isoformat pads year, month and day
ZeroPad(n, w) ==
    IF w <= 0 THEN <<>>
    ELSE IF w = 1 /\ n >= 10 THEN Decimal(n)
    ELSE Append(ZeroPad(n \div 10, w - 1), DigitChar(n % 10))

RECURSIVE StrLess(_, _)
\* a < b for two str values
StrLess(a, b) ==
    IF b = <<>> THEN FALSE
    ELSE IF a = <<>> THEN TRUE
    ELSE IF Head(a) # Head(b) THEN Head(a) < Head(b)
    ELSE StrLess(Tail(a), Tail(b))

RECURSIVE Sorted(_)
\* sorted(S): the ascending list of the strings of S
Sorted(S) ==
    IF S = {} THEN <<>>
    ELSE LET m == CHOOSE x \in S : \A y \in S \ {x} : StrLess(x, y)
         IN  <<m>> \o Sorted(S \ {m})

\* the elements of a sequence
Range(s) == {s[i] : i \in 1..Len(s)}

\* list.reverse()
Reverse(s) == [i \in 1..Len(s) |-> s[Len(s) + 1 - i]]

(***************************************************************************)
(* The wall clock.  An instant is a calendar date and a time of day; the   *)
(* model samples NumInstants of them, in chronological order: the last     *)
(* seconds before 00:00:10 of 2013-01-01 up to 00:00:10, then the first    *)
(* seconds of the following days.                                          *)
(***************************************************************************)
TimeLine(i) ==
    IF i <= 6
    THEN [date |-> <<2013, 1, 1>>, hour |-> 0, minute |-> 0, second |-> 4 + i]
    ELSE [date |-> <<2013, 1, 1 + ((i - 5) \div 2)>>, hour |-> 0, minute |-> 0,
          second |-> (i - 5) % 2]

\* position of an instant on the time line
Clock == 1..NumInstants

\* date.isoformat()
isoformat(d) == ZeroPad(d[1], 4) \o Dash \o ZeroPad(d[2], 2) \o Dash \o ZeroPad(d[3], 2)

\* Release._gen_rel: curr_time is datetime.now(), today is date.today()
gen_rel(curr_time, today) ==
    LET seconds == curr_time.second + (curr_time.minute * 60) + (curr_time.hour * 3600)
    IN  isoformat(today) \o Dot \o Decimal(seconds)

\* the release name generated at instant i of the time line
NameAt(i) == gen_rel(TimeLine(i), TimeLine(i).date)


(***************************************************************************)
(* Paths.  os.path.join builds every path from base_path; a path is kept   *)
(* as the record of its components below base_path.                        *)
(***************************************************************************)
None == <<>>

\* self.current_path = os.path.join(base_path, 'current')
current_path == [dir |-> "current"]

\* os.path.join(self.release_path, name)
ReleasePath(name) == [dir |-> "releases", rel |-> name]

\* a directory of the host that is no part of the release layout
ElsewherePath == [dir |-> "elsewhere"]

\* the names a shared resource may have
SharedNames == {"log", "uploads"}

\* Release.shared, the class attribute
DefaultShared == <<"log">>

\* the `shared` argument of Release(base_path, shared=None)
SharedArgs == {[given |-> FALSE], [given |-> TRUE, value |-> <<"log", "uploads">>]}

\* the TODO of cleanup: the number of releases kept is the literal 5
Keep == 5

(***************************************************************************)
(* The remote host below base_path:                                        *)
(*   base, release_root, shared_root  whether the directory exists         *)
(*   releases  the names of the directories under release_root             *)
(*   shared    the names of the directories under shared_root              *)
(*   links     <<release, name>>: release/name is a symlink to shared/name *)
(*   current   the release name the symlink `current` points at, or None   *)
(***************************************************************************)
EmptyHost(b) ==
    [base |-> b, release_root |-> FALSE, shared_root |-> FALSE,
     releases |-> {}, shared |-> {}, links |-> {}, current |-> None]

\* (a link that is never found, so never removed before ln)
exists_current_never(h) == FALSE

\* fabric.contrib.files.exists(path): `test -e`, which follows a symlink
exists_current(h) == h.current # None /\ h.current \in h.releases

\* (a shared directory taken to be there)
exists_shared_assumed(h, name) == TRUE

\* exists(os.path.join(self.shared_path, name))
exists_shared(h, name) == h.shared_root /\ name \in h.shared

\* (link_shared without its test of rel)
exists_rel_untested(h, rel, name) == FALSE

\* exists(os.path.join(self.current_release_path(), name))
exists_rel(h, rel, name) == <<rel, name>> \in h.links /\ exists_shared(h, name)

\* what run("rm -rf 'path'") does: it removes the path and what is below it,
\* and a missing path is no error
rm_rf(h, path) ==
    IF path = current_path THEN [h EXCEPT !.current = None]
    ELSE IF path.dir = "releases"
    THEN [h EXCEPT !.releases = @ \ {path.rel},
                   !.links = {l \in @ : l[1] # path.rel}]
    ELSE h

\* whether `cd release_path && find * -maxdepth 0 -type d` exits with status 0:
\* cd fails without the directory, and with no entry the shell leaves the
\* pattern * as it is and find fails on the missing file named *
releases_ok(h) == h.release_root /\ h.releases # {}

\* Release.releases: sorted(run(...).split())
releases(h) == Sorted(h.releases)

VARIABLES
    host,   \* the remote host
    now,    \* the wall clock: the position on the time line last read
    pc,     \* pc[p]: where process p is
    self,   \* self[p]: the fields of the Release instance of p
    env,    \* env[p]: fabric's env of p: base_dir
    frame,  \* frame[p]: the arguments and locals of the calls p is in
    obs,    \* obs[p]: what an observer of p has seen (not read by the code)
    fabfile,\* the caller's configuration: the `shared` argument it passes
    faults, \* how many remote commands have failed for a reason of the host's
    gen     \* two instants and the release names _gen_rel made of them

vars == <<host, now, pc, self, env, frame, obs, fabfile, faults, gen>>

\* the processes that deploy to the host
Procs == {"p1", "p2"}

\* Release.__init__
NewSelf(arg) ==
    [current_rel |-> None, previous_rel |-> None,
     shared |-> IF arg.given THEN arg.value ELSE DefaultShared,
     rollback_stack |-> <<>>]

NoSelf == NewSelf([given |-> FALSE])

\*   op       "deploy" (the with statement) or "rollback" (rollback_release)
\*   inbody   the scoped body is running (it is what calls)
\*   tb       __exit__ was given a traceback
\*   calls    how many times setup was called
\*   users    how many actions the body registered
\*   names, i, create   link_shared's arguments: names[i] is being linked
\*   rels     the local rels of cleanup
\*   old_rel  the local old_rel of rollback_release
\*   result   what rollback_release returned
NoFrame ==
    [op |-> "none", inbody |-> FALSE, tb |-> FALSE, calls |-> 0, users |-> 0,
     names |-> <<>>, i |-> 0, create |-> FALSE, rels |-> <<>>, old_rel |-> None,
     result |-> "none"]

\*   current0    what `current` pointed at when the invocation began
\*   fresh       the release directory was made by this invocation's mkdir
\*   registered  how many actions were given to on_rollback
\*   invoked     the registration numbers of the actions invoked, in order
\*   failures    how many remote commands failed for a reason of the host's
\*   listed      the release names cleanup found
NoObs ==
    [current0 |-> None, fresh |-> FALSE, registered |-> 0, invoked |-> <<>>,
     failures |-> 0, listed |-> <<>>]

\* no instants drawn
NoGen == [a |-> TimeLine(1), b |-> TimeLine(1), names |-> <<>>]

Init ==
    /\ host \in {EmptyHost(b) : b \in BOOLEAN}
    /\ now = 1
    /\ pc = [p \in Procs |-> "idle"]
    /\ self = [p \in Procs |-> NoSelf]
    /\ env = [p \in Procs |-> [base_dir |-> None]]
    /\ frame = [p \in Procs |-> NoFrame]
    /\ obs = [p \in Procs |-> NoObs]
    /\ fabfile \in {[shared |-> arg] : arg \in SharedArgs}
    /\ faults = 0
    /\ gen = NoGen


(***************************************************************************)
(* Transaction (fabricext/releases/transaction.py) and                     *)
(* execute_pseudo_task (util.py): execute_pseudo_task(fn=f) calls f.       *)
(***************************************************************************)
\* a callable given to on_rollback: what it calls, and which registration of
\* the instance it is (the n-th callable object)
Action(fn, n) == [fn |-> fn, n |-> n]

\* Transaction.on_rollback(action): the action goes on top of the stack
on_rollback(stack, action) == Append(stack, action)

\* (a drain in the order of registration)
Bottom(stack) == 1

\* the action Transaction.__exit__ invokes next: the last one registered
Top(stack) == Len(stack)

\* the stack without an action
Without(stack, n) == [i \in 1..(Len(stack) - 1) |-> IF i < n THEN stack[i] ELSE stack[i + 1]]

\* what Transaction.__exit__ returns: it takes the error it has handled
TransactionExitValue(tb) == tb

\* what Release.__exit__ returns: it ends without a return statement, the
\* value of super().__exit__ is dropped, and None is falsy
ReleaseExitValue(super_value) == FALSE

(***************************************************************************)
(* An exception (the SystemExit of abort included) leaving the code p      *)
(* runs: inside the scoped body the with statement hands it to             *)
(* Release.__exit__, which warns 'Release failed.' and calls               *)
(* Transaction.__exit__; anywhere else it leaves the program.              *)
(***************************************************************************)
PcAfterRaise(f) == IF f.inbody THEN "txn_exit" ELSE "raised"

FrameAfterRaise(f) ==
    IF f.inbody THEN [f EXCEPT !.inbody = FALSE, !.tb = TRUE] ELSE f

\* a remote command of p failed although the host's state allowed it
Failure(o) == [o EXCEPT !.failures = @ + 1]

\* whether a remote command does what the host's state allows (TRUE) or fails
\* for a reason of the host's (FALSE)
Outcomes == IF faults < MaxFaults THEN BOOLEAN ELSE {TRUE}

\* the failure of a step is counted
Counted(ok) == faults' = IF ok THEN faults ELSE faults + 1

(***************************************************************************)
(* The manager's construction and the way into the scope.                  *)
(***************************************************************************)
\* (a missing base path that only warns)
SetupBaseWarns(p, f) ==
    /\ pc' = [pc EXCEPT ![p] = "setup"]
    /\ frame' = [frame EXCEPT ![p] = f]

\* the first lines of setup: error('Missing base path.') aborts
SetupBase(p, f) ==
    /\ pc' = [pc EXCEPT ![p] = IF host.base THEN "setup" ELSE PcAfterRaise(f)]
    /\ frame' = [frame EXCEPT ![p] = IF host.base THEN f ELSE FrameAfterRaise(f)]

\* with release(base_path, shared): the instance is made and
\* Release.__enter__ calls setup
Enter(p) ==
    /\ pc[p] = "idle"
    /\ faults < MaxFaults
    /\ self' = [self EXCEPT ![p] = NewSelf(fabfile.shared)]
    /\ SetupBase(p, [frame[p] EXCEPT !.op = "deploy", !.calls = 1])
    /\ obs' = [obs EXCEPT ![p].current0 = host.current]
    /\ UNCHANGED <<host, now, env, fabfile, faults, gen>>

\* setup, under warn_only: mkdir -p of release_path and shared_path if missing
SetupPaths(p) ==
    /\ pc[p] = "setup"
    /\ host' = [host EXCEPT !.release_root = TRUE, !.shared_root = TRUE]
    /\ pc' = [pc EXCEPT ![p] = "create_release"]
    /\ UNCHANGED <<now, self, env, frame, obs, fabfile, faults, gen>>

\* Release.current_release with a release name already generated
CachedRelease(p) == self[p].current_rel

\* the instants the wall clock may show by now
Later == {t \in Clock : t >= now}

\* (a name generated at every call)
current_release_uncached(current_rel, t) == NameAt(t)

\* Release.current_release, called at instant t: the name is generated when
\* self.current_rel is None, and returned from self.current_rel otherwise
current_release(current_rel, t) == IF current_rel = None THEN NameAt(t) ELSE current_rel

\* create_release: the name from current_release (generated from the clock
\* when there is none), env.base_dir, mkdir -p, on_rollback; then the first
\* shared name, if any.  When setup returns to __enter__, Transaction.__enter__
\* does nothing more and the scoped body begins.
CreateRelease(p) ==
    /\ pc[p] = "create_release"
    /\ \E t \in Later, ok \in Outcomes :
        LET name == current_release(CachedRelease(p), t)
            f == [frame[p] EXCEPT !.names = self[p].shared, !.i = 1, !.create = TRUE,
                                  !.inbody = @ \/ (self[p].shared = <<>>)]
        IN  /\ Counted(ok)
            /\ UNCHANGED <<fabfile, gen>>
            /\ now' = IF CachedRelease(p) = None THEN t ELSE now
            /\ env' = [env EXCEPT ![p].base_dir = ReleasePath(name)]
            /\ IF ok
               THEN /\ host' = [host EXCEPT !.release_root = TRUE,
                                            !.releases = @ \cup {name}]
                    /\ self' = [self EXCEPT ![p].current_rel = name,
                                  ![p].rollback_stack =
                                     on_rollback(@, Action("revert_release",
                                                           obs[p].registered + 1))]
                    /\ obs' = [obs EXCEPT ![p].registered = @ + 1,
                                          ![p].fresh = @ \/ name \notin host.releases]
                    /\ frame' = [frame EXCEPT ![p] = f]
                    /\ pc' = [pc EXCEPT ![p] =
                                IF f.names = <<>> THEN "body" ELSE "link_shared"]
               ELSE /\ host' = host
                    /\ self' = [self EXCEPT ![p].current_rel = name]
                    /\ obs' = [obs EXCEPT ![p] = Failure(@)]
                    /\ frame' = [frame EXCEPT ![p] = FrameAfterRaise(frame[p])]
                    /\ pc' = [pc EXCEPT ![p] = PcAfterRaise(frame[p])]

\* link_shared, its first half: the directory under shared_path.  mkdir has
\* no -p: it needs shared_path.  Without the directory and without create,
\* error() aborts.
LinkSharedDir(p) ==
    /\ pc[p] = "link_shared"
    /\ LET f == frame[p]
           name == f.names[f.i]
           runs == ~exists_shared(host, name) /\ f.create
           allowed == host.shared_root
       IN  \E ok \in Outcomes :
            /\ ok \/ (runs /\ allowed)
            /\ Counted(ok)
            /\ obs' = [obs EXCEPT ![p] = IF ok THEN @ ELSE Failure(@)]
            /\ IF exists_shared(host, name) \/ (runs /\ allowed /\ ok)
               THEN /\ host' = [host EXCEPT !.shared = @ \cup {name}]
                    /\ pc' = [pc EXCEPT ![p] = "link_rel"]
                    /\ frame' = frame
               ELSE /\ host' = host
                    /\ pc' = [pc EXCEPT ![p] = PcAfterRaise(f)]
                    /\ frame' = [frame EXCEPT ![p] = FrameAfterRaise(f)]
    /\ UNCHANGED <<now, self, env, fabfile, gen>>

\* where link_shared returns to: the next name of setup's loop, or the body
AfterLink(f) == IF f.i < Len(f.names) THEN "link_shared" ELSE "body"

\* link_shared, its second half: ln -s shared rel if rel is missing; ln needs
\* the release directory and no entry of that name in it
LinkSharedRel(p) ==
    /\ pc[p] = "link_rel"
    /\ \E t \in Later :
       LET f == frame[p]
           name == f.names[f.i]
           rel == current_release(CachedRelease(p), t)
           runs == ~exists_rel(host, rel, name)
           allowed == rel \in host.releases /\ <<rel, name>> \notin host.links
           g == [f EXCEPT !.i = @ + 1, !.inbody = @ \/ (AfterLink(f) = "body")]
       IN  \E ok \in Outcomes :
            /\ ok \/ (runs /\ allowed)
            /\ Counted(ok)
            /\ obs' = [obs EXCEPT ![p] = IF ok THEN @ ELSE Failure(@)]
            /\ IF ~runs \/ (allowed /\ ok)
               THEN /\ host' = [host EXCEPT !.links =
                                  IF runs THEN @ \cup {<<rel, name>>} ELSE @]
                    /\ pc' = [pc EXCEPT ![p] = AfterLink(f)]
                    /\ frame' = [frame EXCEPT ![p] = g]
               ELSE /\ host' = host
                    /\ pc' = [pc EXCEPT ![p] = PcAfterRaise(f)]
                    /\ frame' = [frame EXCEPT ![p] = FrameAfterRaise(f)]
    /\ UNCHANGED <<now, self, env, fabfile, gen>>

(***************************************************************************)
(* The scoped body: the caller's code between __enter__ and __exit__.      *)
(* It may call the manager's public methods, write env.base_dir, raise,    *)
(* or end.                                                                 *)
(***************************************************************************)
\* whether the body does more than end or raise
BodyActs(p) == pc[p] = "body" /\ Cardinality(host.releases) <= MaxBodyReleases

\* r.on_rollback(action) with an action of the caller's
BodyOnRollback(p) ==
    /\ BodyActs(p)
    /\ frame[p].users < MaxUserActions
    /\ self' = [self EXCEPT ![p].rollback_stack =
                                on_rollback(@, Action("user", obs[p].registered + 1))]
    /\ frame' = [frame EXCEPT ![p].users = @ + 1]
    /\ obs' = [obs EXCEPT ![p].registered = @ + 1]
    /\ UNCHANGED <<host, now, pc, env, fabfile, faults, gen>>

\* r.setup() once more
BodySetup(p) ==
    /\ BodyActs(p)
    /\ frame[p].calls < MaxSetupCalls
    /\ SetupBase(p, [frame[p] EXCEPT !.calls = @ + 1])
    /\ UNCHANGED <<host, now, self, env, obs, fabfile, faults, gen>>

\* r.link_shared(name), create left at its default False
BodyLinkShared(p) ==
    /\ BodyActs(p)
    /\ \E name \in SharedNames :
        /\ ~exists_rel(host, CachedRelease(p), name)
        /\ frame' = [frame EXCEPT ![p].names = <<name>>, ![p].i = 1,
                                  ![p].create = FALSE]
    /\ pc' = [pc EXCEPT ![p] = "link_shared"]
    /\ UNCHANGED <<host, now, self, env, obs, fabfile, faults, gen>>

\* the paths the body may write to env.base_dir: the live release's, or a
\* directory elsewhere
BodyPaths == {ReleasePath(r) : r \in host.releases \cap {host.current}} \cup {ElsewherePath}

\* env.base_dir = path
BodySetEnv(p) ==
    /\ BodyActs(p)
    /\ env[p].base_dir = ReleasePath(CachedRelease(p))
    /\ \E path \in BodyPaths \ {env[p].base_dir} :
        env' = [env EXCEPT ![p].base_dir = path]
    /\ UNCHANGED <<host, now, pc, self, frame, obs, fabfile, faults, gen>>

\* the body raises: Release.__exit__ gets the traceback, warns, and calls
\* Transaction.__exit__
BodyFail(p) ==
    /\ pc[p] = "body"
    /\ pc' = [pc EXCEPT ![p] = PcAfterRaise(frame[p])]
    /\ frame' = [frame EXCEPT ![p] = FrameAfterRaise(@)]
    /\ UNCHANGED <<host, now, self, env, obs, fabfile, faults, gen>>

\* the body ends: Release.__exit__ without a traceback goes on to symlink
BodyEnd(p) ==
    /\ pc[p] = "body"
    /\ pc' = [pc EXCEPT ![p] = "symlink"]
    /\ frame' = [frame EXCEPT ![p].inbody = FALSE]
    /\ UNCHANGED <<host, now, self, env, obs, fabfile, faults, gen>>

(***************************************************************************)
(* Release.__exit__ without a traceback: symlink, cleanup, and then        *)
(* Transaction.__exit__.                                                   *)
(***************************************************************************)
\* symlink, its first half: if exists(current_path): rm -rf current_path
SymlinkRemove(p) ==
    /\ pc[p] = "symlink"
    /\ LET runs == exists_current(host)
       IN  \E ok \in Outcomes :
            /\ ok \/ runs
            /\ Counted(ok)
            /\ obs' = [obs EXCEPT ![p] = IF ok THEN @ ELSE Failure(@)]
            /\ host' = IF runs /\ ok THEN rm_rf(host, current_path) ELSE host
            /\ pc' = [pc EXCEPT ![p] = IF ok THEN "symlink_ln" ELSE PcAfterRaise(frame[p])]
    /\ UNCHANGED <<now, self, env, frame, fabfile, gen>>

\* where symlink returns to: cleanup in __exit__, the removal in rollback_release
AfterSymlink(f) == IF f.op = "deploy" THEN "cleanup" ELSE "remove_old"

\* symlink, its second half: ln -nfs current_release_path() current_path,
\* which replaces a link that is there
SymlinkCreate(p) ==
    /\ pc[p] = "symlink_ln"
    /\ \E t \in Later, ok \in Outcomes :
        /\ Counted(ok)
        /\ obs' = [obs EXCEPT ![p] = IF ok THEN @ ELSE Failure(@)]
        /\ host' = IF ok
                   THEN [host EXCEPT !.current = current_release(CachedRelease(p), t)]
                   ELSE host
        /\ pc' = [pc EXCEPT ![p] =
                    IF ok THEN AfterSymlink(frame[p]) ELSE PcAfterRaise(frame[p])]
    /\ UNCHANGED <<now, self, env, frame, fabfile, gen>>

\* cleanup's list after rels.reverse() and del rels[:5]
Excess(rels) == SubSeq(Reverse(rels), Keep + 1, Len(rels))

\* cleanup, up to the map: rels = self.releases(); if len(rels) > 5: ...
Cleanup(p) ==
    /\ pc[p] = "cleanup"
    /\ \E ok \in Outcomes :
        LET rels == releases(host)
        IN  /\ ok \/ releases_ok(host)
            /\ Counted(ok)
            /\ IF ok /\ releases_ok(host)
               THEN /\ obs' = [obs EXCEPT ![p].listed = rels]
                    /\ frame' = [frame EXCEPT ![p].rels =
                                   IF Len(rels) > Keep THEN Excess(rels) ELSE <<>>]
                    /\ pc' = [pc EXCEPT ![p] =
                                IF Len(rels) > Keep THEN "cleanup_rm" ELSE "txn_exit"]
               ELSE /\ obs' = [obs EXCEPT ![p] = IF ok THEN @ ELSE Failure(@)]
                    /\ frame' = frame
                    /\ pc' = [pc EXCEPT ![p] = PcAfterRaise(frame[p])]
    /\ UNCHANGED <<host, now, self, env, fabfile, gen>>

\* cleanup's map: one rm -rf for each name left in rels, in the list's order
CleanupRemove(p) ==
    /\ pc[p] = "cleanup_rm"
    /\ \E ok \in Outcomes :
        LET rels == frame[p].rels
        IN  /\ Counted(ok)
            /\ obs' = [obs EXCEPT ![p] = IF ok THEN @ ELSE Failure(@)]
            /\ host' = IF ok THEN rm_rf(host, ReleasePath(Head(rels))) ELSE host
            /\ frame' = [frame EXCEPT ![p].rels = IF ok THEN Tail(rels) ELSE rels]
            /\ pc' = [pc EXCEPT ![p] =
                        IF ~ok THEN PcAfterRaise(frame[p])
                        ELSE IF Tail(rels) = <<>> THEN "txn_exit" ELSE "cleanup_rm"]
    /\ UNCHANGED <<now, self, env, fabfile, gen>>

\* Release.revert_release: rm -rf of what env.base_dir holds when it runs
revert_release(h, base_dir) == rm_rf(h, base_dir)

\* Transaction.__exit__ and the end of Release.__exit__.  With a traceback
\* the stack is drained from its top, one action a step, a failing action
\* not stopping the rest; then, and without a traceback at once, the stack
\* is empty and __exit__ returns.  The action create_release registers
\* calls revert_release; an action of the caller's does nothing to the host.
TransactionExit(p) ==
    /\ pc[p] = "txn_exit"
    /\ LET f == frame[p]
           stack == self[p].rollback_stack
           n == Top(stack)
       IN  IF f.tb /\ stack # <<>>
           THEN \E ok \in Outcomes :
                 /\ ok \/ stack[n].fn = "revert_release"
                 /\ Counted(ok)
                 /\ self' = [self EXCEPT ![p].rollback_stack = Without(stack, n)]
                 /\ obs' = [obs EXCEPT ![p] =
                              [IF ok THEN @ ELSE Failure(@) EXCEPT
                                 !.invoked = Append(@, stack[n].n)]]
                 /\ host' = IF ok /\ stack[n].fn = "revert_release"
                            THEN revert_release(host, env[p].base_dir) ELSE host
                 /\ pc' = pc
           ELSE /\ self' = [self EXCEPT ![p].rollback_stack = <<>>]
                /\ faults' = faults
                /\ obs' = obs
                /\ host' = host
                /\ pc' = [pc EXCEPT ![p] =
                            IF f.tb /\ ~ReleaseExitValue(TransactionExitValue(f.tb))
                            THEN "raised" ELSE "returned"]
    /\ UNCHANGED <<now, env, frame, fabfile, gen>>

(***************************************************************************)
(* release(base_path, shared).rollback_release(): called on an instance    *)
(* outside a with statement.                                               *)
(***************************************************************************)
\* (the reverted release taken for the one to retire)
LastButOne(rels) == rels[Len(rels) - 1]

\* rels[-1]
Latest(rels) == rels[Len(rels)]

\* (the oldest release taken for the previous one)
Oldest(rels) == rels[1]

\* rels[-2]
Previous(rels) == rels[Len(rels) - 1]

\* up to symlink: the list, the warning, old_rel and current_rel
RollbackRelease(p) ==
    /\ pc[p] = "idle"
    /\ faults < MaxFaults
    /\ \E ok \in Outcomes :
        LET rels == releases(host)
            n == Len(rels)
        IN  /\ ok \/ releases_ok(host)
            /\ Counted(ok)
            /\ IF ~(ok /\ releases_ok(host))
               THEN /\ obs' = [obs EXCEPT ![p] =
                                 [IF ok THEN @ ELSE Failure(@) EXCEPT
                                    !.current0 = host.current]]
                    /\ frame' = [frame EXCEPT ![p].op = "rollback"]
                    /\ self' = [self EXCEPT ![p] = NewSelf(fabfile.shared)]
                    /\ pc' = [pc EXCEPT ![p] = "raised"]
               ELSE IF n < 2
               THEN /\ obs' = [obs EXCEPT ![p].current0 = host.current]
                    /\ frame' = [frame EXCEPT ![p].op = "rollback", ![p].result = "False"]
                    /\ self' = [self EXCEPT ![p] = NewSelf(fabfile.shared)]
                    /\ pc' = [pc EXCEPT ![p] = "returned"]
               ELSE /\ obs' = [obs EXCEPT ![p].current0 = host.current,
                                         ![p].listed = rels]
                    /\ frame' = [frame EXCEPT ![p].op = "rollback",
                                              ![p].old_rel = Latest(rels)]
                    /\ self' = [self EXCEPT ![p] =
                                  [NewSelf(fabfile.shared) EXCEPT
                                     !.current_rel = Previous(rels)]]
                    /\ pc' = [pc EXCEPT ![p] = "symlink"]
    /\ UNCHANGED <<host, now, env, fabfile, gen>>

\* the last statement: rm -rf of old_rel's directory
RemoveOld(p) ==
    /\ pc[p] = "remove_old"
    /\ \E ok \in Outcomes :
        /\ Counted(ok)
            /\ obs' = [obs EXCEPT ![p] = IF ok THEN @ ELSE Failure(@)]
        /\ host' = IF ok THEN rm_rf(host, ReleasePath(frame[p].old_rel)) ELSE host
        /\ frame' = [frame EXCEPT ![p].result = IF ok THEN "None" ELSE @]
        /\ pc' = [pc EXCEPT ![p] = IF ok THEN "returned" ELSE "raised"]
    /\ UNCHANGED <<now, self, env, fabfile, gen>>

\* the instance is discarded; the next one of p is another invocation
Discard(p) ==
    /\ pc[p] \in {"returned", "raised"}
    /\ pc' = [pc EXCEPT ![p] = "idle"]
    /\ self' = [self EXCEPT ![p] = NoSelf]
    /\ env' = [env EXCEPT ![p].base_dir = None]
    /\ frame' = [frame EXCEPT ![p] = NoFrame]
    /\ obs' = [obs EXCEPT ![p] = NoObs]
    /\ UNCHANGED <<host, now, fabfile, faults, gen>>

\* one step of process p
Step(p) ==
    \/ Enter(p)
    \/ SetupPaths(p)
    \/ CreateRelease(p)
    \/ LinkSharedDir(p)
    \/ LinkSharedRel(p)
    \/ BodyOnRollback(p)
    \/ BodySetup(p)
    \/ BodyLinkShared(p)
    \/ BodySetEnv(p)
    \/ BodyFail(p)
    \/ BodyEnd(p)
    \/ SymlinkRemove(p)
    \/ SymlinkCreate(p)
    \/ Cleanup(p)
    \/ CleanupRemove(p)
    \/ TransactionExit(p)
    \/ RollbackRelease(p)
    \/ RemoveOld(p)
    \/ Discard(p)

\* one deploy at a time per base path: the invocations of one process
Serial == {"p1"}

Next == \E p \in Serial : Step(p)

Spec == Init /\ [][Next]_vars

(***************************************************************************)
(* _gen_rel on its own: two instants are drawn, and the names _gen_rel     *)
(* makes of them are set side by side.  date.today() is taken to give the  *)
(* date of the instant datetime.now() gave.                                *)
(***************************************************************************)
GenDates == {<<2012, 12, 31>>, <<2013, 1, 1>>, <<2013, 1, 10>>}
GenHours == {0, 1, 23}
GenMinutes == {0, 1, 59}
GenSeconds == {0, 9, 10, 59}

GenInstants ==
    [date : GenDates, hour : GenHours, minute : GenMinutes, second : GenSeconds]

\* the instant as one number that grows with time: seconds since the start
\* of 2000, in years of 12 months of 31 days (long enough to keep the order)
Ticks(t) ==
    (((((t.date[1] - 2000) * 12 + t.date[2]) * 31 + t.date[3]) * 24 + t.hour) * 60
        + t.minute) * 60
    + t.second

InitGen ==
    /\ host = EmptyHost(TRUE)
    /\ now = 1
    /\ pc = [p \in Procs |-> "idle"]
    /\ self = [p \in Procs |-> NoSelf]
    /\ env = [p \in Procs |-> [base_dir |-> None]]
    /\ frame = [p \in Procs |-> NoFrame]
    /\ obs = [p \in Procs |-> NoObs]
    /\ fabfile = [shared |-> [given |-> FALSE]]
    /\ faults = 0
    /\ gen \in [a : GenInstants, b : GenInstants, names : {<<>>}]

\* the two names are generated
Generate ==
    /\ gen.names = <<>>
    /\ gen' = [gen EXCEPT !.names = <<gen_rel(gen.a, gen.a.date), gen_rel(gen.b, gen.b.date)>>]
    /\ UNCHANGED <<host, now, pc, self, env, frame, obs, fabfile, faults>>

NextGen == Generate

SpecGen == InitGen /\ [][NextGen]_vars

(***************************************************************************)
(* Deploys to a host that has been deployed to before: it holds one        *)
(* release more than cleanup keeps (a removal of cleanup's had failed),    *)
(* the oldest made the day before, and the wall clock stands at the        *)
(* instant of the newest.  The scoped body only ends or raises.            *)
(***************************************************************************)
\* the last second of the day before the time line
Yesterday == [date |-> <<2012, 12, 31>>, hour |-> 23, minute |-> 59, second |-> 59]

UsedHost ==
    LET rels == {gen_rel(Yesterday, Yesterday.date)} \cup {NameAt(i) : i \in 1..Keep}
    IN  [base |-> TRUE, release_root |-> TRUE, shared_root |-> TRUE,
         releases |-> rels, shared |-> {"log"},
         links |-> {<<r, "log">> : r \in rels}, current |-> NameAt(Keep)]

InitLate ==
    /\ host = UsedHost
    /\ now = Keep
    /\ pc = [p \in Procs |-> "idle"]
    /\ self = [p \in Procs |-> NoSelf]
    /\ env = [p \in Procs |-> [base_dir |-> None]]
    /\ frame = [p \in Procs |-> NoFrame]
    /\ obs = [p \in Procs |-> NoObs]
    /\ fabfile \in {[shared |-> arg] : arg \in SharedArgs}
    /\ faults = 0
    /\ gen = NoGen

StepLate(p) ==
    \/ Enter(p)
    \/ SetupPaths(p)
    \/ CreateRelease(p)
    \/ LinkSharedDir(p)
    \/ LinkSharedRel(p)
    \/ BodyFail(p)
    \/ BodyEnd(p)
    \/ SymlinkRemove(p)
    \/ SymlinkCreate(p)
    \/ Cleanup(p)
    \/ CleanupRemove(p)
    \/ TransactionExit(p)
    \/ Discard(p)

NextLate == \E p \in Serial : StepLate(p)

SpecLate == InitLate /\ [][NextLate]_vars

(***************************************************************************)
(* What the claims read.                                                   *)
(***************************************************************************)
\* the invocation of p has ended
Finished(p) == pc[p] \in {"returned", "raised"}

\* the release of the instance of p
Own(p) == self[p].current_rel

\* the instant of the time line that gave a release its name
InstantOf(name) == CHOOSE i \in Clock : NameAt(i) = name

\* the k releases of S created last
Newest(S, k) ==
    {r \in S : Cardinality({q \in S : InstantOf(q) > InstantOf(r)}) < k}

\* <<n, n - 1, ..., 1>>
Downto(n) == [i \in 1..n |-> n + 1 - i]

(***************************************************************************)
(* C1.  Rollback completeness: when the scoped body of a deploy ends in    *)
(* failure and no remote command failed, then after the exit the release   *)
(* directory of this invocation does not exist and `current` points where  *)
(* it did before the deploy.                                               *)
(***************************************************************************)
C1_RollbackCompleteness ==
    \A p \in Procs :
        (frame[p].op = "deploy" /\ frame[p].tb /\ pc[p] = "raised"
            /\ obs[p].failures = 0)
        => (Own(p) \notin host.releases /\ host.current = obs[p].current0)

(***************************************************************************)
(* C2.  Promotion correctness: after a deploy whose body succeeded and     *)
(* whose exit completed, `current` points at the release directory of      *)
(* this invocation, and the directory exists.                              *)
(***************************************************************************)
C2_PromotionCorrectness ==
    \A p \in Procs :
        (frame[p].op = "deploy" /\ pc[p] = "returned")
        => (host.current = Own(p) /\ Own(p) \in host.releases)

(***************************************************************************)
(* C3.  Pruning bound: when cleanup has completed, at most Keep releases   *)
(* remain; they are the Keep releases created last among those cleanup     *)
(* found, and all of them when it found Keep or fewer.                     *)
(***************************************************************************)
C3_PruningBound ==
    \A p \in Procs :
        (frame[p].op = "deploy" /\ ~frame[p].tb /\ pc[p] \in {"txn_exit", "returned"})
        => LET before == Range(obs[p].listed)
           IN  /\ Cardinality(host.releases) <= Keep
               /\ host.releases =
                    IF Cardinality(before) <= Keep THEN before ELSE Newest(before, Keep)

(***************************************************************************)
(* C4.  Chronological ordering: of two names generated at two different    *)
(* instants, the one of the earlier instant is the smaller string.         *)
(***************************************************************************)
C4_ChronologicalOrder ==
    (gen.names # <<>> /\ Ticks(gen.a) # Ticks(gen.b))
    => (Ticks(gen.a) < Ticks(gen.b) <=> StrLess(gen.names[1], gen.names[2]))

(***************************************************************************)
(* C5.  Transaction drain: no action is invoked twice; none is invoked     *)
(* unless the scope exits with an error; the actions are invoked last      *)
(* registered first; after an exit with an error all actions registered    *)
(* were invoked; and after any exit the rollback stack is empty.           *)
(***************************************************************************)
C5_TransactionDrain ==
    \A p \in Procs :
        LET o == obs[p]
            f == frame[p]
        IN  /\ \A i, j \in 1..Len(o.invoked) : o.invoked[i] = o.invoked[j] => i = j
            /\ ~f.tb => o.invoked = <<>>
            /\ o.invoked = SubSeq(Downto(o.registered), 1, Len(o.invoked))
            /\ (f.op = "deploy" /\ f.tb /\ Finished(p))
                => (o.invoked = Downto(o.registered) /\ self[p].rollback_stack = <<>>)
            /\ (f.op = "deploy" /\ pc[p] = "returned") => self[p].rollback_stack = <<>>

\* a failed scope has invoked the caller's action and then revert_release
C5_Witness ==
    \E p \in Procs :
        /\ frame[p].tb /\ pc[p] = "raised" /\ frame[p].users > 0
        /\ obs[p].invoked = Downto(obs[p].registered)

(***************************************************************************)
(* C6.  When the scoped body fails, the error does not leave the           *)
(* manager's exit: the with statement returns to its caller.               *)
(***************************************************************************)
C6_ErrorNotReraised ==
    \A p \in Procs :
        (frame[p].op = "deploy" /\ frame[p].tb /\ Finished(p)) => pc[p] = "returned"

(***************************************************************************)
(* C7.  Rollback to the previous release: when rollback_release has run    *)
(* to its end on a list of at least 2 releases, `current` points at the    *)
(* last but one of the sorted list, which is the instance's current_rel,   *)
(* the last one's directory is gone and all the others are there.          *)
(***************************************************************************)
C7_End ==
    \A p \in Procs :
        (frame[p].op = "rollback" /\ pc[p] = "returned" /\ frame[p].result = "None")
        => LET rels == obs[p].listed
               n == Len(rels)
           IN  /\ n >= 2
               /\ rels = Sorted(Range(rels))
               /\ host.current = rels[n - 1]
               /\ Own(p) = rels[n - 1]
               /\ host.releases = Range(rels) \ {rels[n]}

\* no step of rollback_release changes what is in another release, or shared
C7_Untouched ==
    \A p \in Procs :
        frame[p].op = "rollback" /\ pc[p] # "idle"
        => /\ \A l \in host.links \cup host'.links :
                l[1] # frame[p].old_rel => (l \in host.links <=> l \in host'.links)
           /\ host'.shared = host.shared
           /\ host'.shared_root = host.shared_root

C7_RollbackToPrevious == []C7_End /\ [][C7_Untouched]_vars

\* releases [A, B, C] with current -> C have been rolled back
C7_Witness ==
    \E p \in Procs :
        /\ frame[p].op = "rollback" /\ pc[p] = "returned" /\ frame[p].result = "None"
        /\ Len(obs[p].listed) = 3
        /\ obs[p].current0 = obs[p].listed[3]
        /\ host.current = obs[p].listed[2]

(***************************************************************************)
(* C8.  Rollback with fewer than 2 releases is a no-op: when               *)
(* rollback_release ends without having chosen a release to retire and     *)
(* no remote command failed, it has returned False, has raised nothing,    *)
(* and current_rel and `current` are what they were.                       *)
(***************************************************************************)
C8_NoPreviousIsNoop ==
    \A p \in Procs :
        (frame[p].op = "rollback" /\ Finished(p) /\ frame[p].old_rel = None
            /\ obs[p].failures = 0)
        => (pc[p] = "returned" /\ frame[p].result = "False" /\ Own(p) = None
            /\ host.current = obs[p].current0)

(***************************************************************************)
(* C9.  A missing base path fails fast: while base_path does not exist,    *)
(* nothing exists below it, no action is registered, and an invocation     *)
(* has not gone past the first test of setup.                              *)
(***************************************************************************)
C9_MissingBaseFailsFast ==
    ~host.base
    => /\ host = EmptyHost(FALSE)
       /\ \A p \in Procs :
            /\ self[p].rollback_stack = <<>>
            /\ obs[p].registered = 0
            /\ pc[p] \in {"idle", "raised"}

\* setup has aborted on a missing base path
C9_Witness ==
    ~host.base /\ \E p \in Procs : pc[p] = "raised" /\ frame[p].op = "deploy"

(***************************************************************************)
(* C10.  Idempotent bootstrap: a call of setup after the first, on the     *)
(* same manager, goes through without an error and every step of it        *)
(* leaves the host as it is, unless a remote command fails.                *)
(***************************************************************************)
InLaterSetup(p) ==
    /\ frame[p].calls > 1
    /\ \/ pc[p] \in {"setup", "create_release"}
       \/ pc[p] \in {"link_shared", "link_rel"} /\ frame[p].create

C10_IdempotentBootstrap ==
    [][\A p \in Procs :
        /\ (pc[p] = "body" /\ frame'[p].calls > frame[p].calls)
            => (pc'[p] = "setup" /\ host' = host)
        /\ (InLaterSetup(p) /\ faults' = faults)
            => (host' = host
                /\ pc'[p] \in {"create_release", "link_shared", "link_rel", "body"})]_vars

\* the second call of setup has returned to the body
C10_Witness ==
    \E p \in Procs : pc[p] = "body" /\ frame[p].calls > 1 /\ frame[p].create

(***************************************************************************)
(* C11.  link_shared without create on a name whose directory under        *)
(* shared_path is missing is fatal: the step aborts the caller and leaves  *)
(* the host as it is (no directory under shared_path, no link, no release  *)
(* directory is made).                                                     *)
(***************************************************************************)
C11_MissingSharedIsFatal ==
    [][\A p \in Procs :
        (pc[p] = "link_shared" /\ ~frame[p].create
            /\ frame[p].names[frame[p].i] \notin host.shared)
        => (host' = host /\ pc'[p] = "txn_exit" /\ frame'[p].tb)]_vars

\* the body's link_shared("uploads") has aborted on the missing directory
C11_Witness ==
    \E p \in Procs :
        /\ pc[p] = "txn_exit" /\ frame[p].tb /\ ~frame[p].create
        /\ frame[p].i = 1 /\ Len(frame[p].names) = 1
        /\ frame[p].names[1] \notin host.shared
        /\ \A r \in host.releases : <<r, frame[p].names[1]>> \notin host.links

(***************************************************************************)
(* C12.  When the way into the scope aborts at a step of link_shared       *)
(* (the release directory is made and its action registered), the new      *)
(* release directory does not exist afterwards.                            *)
(***************************************************************************)
C12_EntryLinkFailureCleansUp ==
    \A p \in Procs :
        (frame[p].op = "deploy" /\ pc[p] = "raised" /\ ~frame[p].tb
            /\ frame[p].create /\ frame[p].calls = 1
            /\ frame[p].i >= 1 /\ frame[p].i <= Len(frame[p].names)
            /\ obs[p].registered > 0)
        => Own(p) \notin host.releases

(***************************************************************************)
(* C13.  After any sequence of operations that ran to their end one at a   *)
(* time, no remote command having failed, `current` does not exist or      *)
(* points at a directory that exists under release_path.                   *)
(***************************************************************************)
C13_CurrentLinkInvariant ==
    (faults = 0 /\ \A p \in Procs : pc[p] = "idle" \/ Finished(p))
    => (host.current = None \/ host.current \in host.releases)

(***************************************************************************)
(* C14.  The action create_release registers, when it is invoked and its   *)
(* command does not fail, removes the release directory of this            *)
(* invocation and nothing else, whatever env.base_dir holds by then.       *)
(***************************************************************************)
C14_RevertRemovesOwnRelease ==
    [][\A p \in Procs :
        LET stack == self[p].rollback_stack
        IN  (pc[p] = "txn_exit" /\ frame[p].tb /\ stack # <<>>
                /\ Len(obs'[p].invoked) > Len(obs[p].invoked)
                /\ stack[Top(stack)].fn = "revert_release"
                /\ faults' = faults)
            => host' = rm_rf(host, ReleasePath(Own(p)))]_vars

(***************************************************************************)
(* C16.  symlink is two remote steps, the removal of `current` and then    *)
(* ln: when `current` pointed at an existing release, it does not exist    *)
(* once the first step is done, and when the run stops there (ln fails)    *)
(* it stays missing.                                                       *)
(***************************************************************************)
C16_PromotionInTwoSteps ==
    [][\A p \in Procs :
        /\ (pc[p] = "symlink" /\ pc'[p] = "symlink_ln"
                /\ host.current # None /\ host.current \in host.releases)
            => (host'.current = None /\ host'.releases = host.releases)
        /\ (pc[p] = "symlink_ln" /\ pc'[p] \notin {"cleanup", "remove_old"})
            => host' = host
        /\ (pc[p] = "symlink_ln" /\ pc'[p] \in {"cleanup", "remove_old"})
            => host'.current = Own(p)]_vars

\* a deploy has stopped between the two steps: the link it found is gone
C16_Witness ==
    \E p \in Procs :
        /\ frame[p].op = "deploy" /\ pc[p] = "raised" /\ ~frame[p].tb
        /\ obs[p].current0 \in host.releases
        /\ Own(p) \in host.releases /\ Own(p) # obs[p].current0
        /\ host.current = None

(***************************************************************************)
(* C17.  In rollback_release the link is on the reverted release before    *)
(* the retired directory is removed, and no action is registered: the      *)
(* retired directory is never gone while `current` points at it, and when  *)
(* its removal fails `current` points at the reverted release and the      *)
(* retired directory is still there.                                       *)
(***************************************************************************)
C17_Order ==
    \A p \in Procs :
        frame[p].op = "rollback"
        => /\ self[p].rollback_stack = <<>> /\ obs[p].registered = 0
           /\ frame[p].old_rel # None
                => /\ frame[p].old_rel = Latest(obs[p].listed)
                   /\ Own(p) = Previous(obs[p].listed)
                   /\ frame[p].old_rel \notin host.releases
                        => host.current # frame[p].old_rel
           /\ pc[p] = "remove_old"
                => (host.current = Own(p) /\ frame[p].old_rel \in host.releases)

C17_FailedRemoval ==
    \A p \in Procs :
        (pc[p] = "remove_old" /\ pc'[p] = "raised")
        => (host' = host /\ self'[p] = self[p])

C17_SwapBeforeRemoval == []C17_Order /\ [][C17_FailedRemoval]_vars

\* the removal of the retired release has failed after the swap
C17_Witness ==
    \E p \in Procs :
        /\ frame[p].op = "rollback" /\ pc[p] = "raised" /\ obs[p].failures = 1
        /\ obs[p].current0 = frame[p].old_rel
        /\ frame[p].old_rel \in host.releases
        /\ host.current = Own(p) /\ Own(p) \in host.releases

(***************************************************************************)
(* C18.  The release name is generated once for an instance: once a deploy *)
(* has its name, no step of it changes the name, and every directory,      *)
(* link or target of `current` a step of it adds is that of this name,     *)
(* whatever the wall clock shows at the step.                              *)
(***************************************************************************)
C18_ReleaseIdCached ==
    [][\A p \in Procs :
        (frame[p].op = "deploy" /\ Own(p) # None /\ ~Finished(p))
        => /\ self'[p].current_rel = Own(p)
           /\ host'.releases \subseteq host.releases \cup {Own(p)}
           /\ \A l \in host'.links \ host.links : l[1] = Own(p)
           /\ host'.current \in {host.current, None, Own(p)}
           /\ (pc[p] = "symlink_ln" /\ pc'[p] = "cleanup")
                => (host'.current = Own(p) /\ Own(p) \in host'.releases)]_vars

\* a deploy that called setup twice has promoted the one release it made
C18_Witness ==
    \E p \in Procs :
        /\ frame[p].op = "deploy" /\ pc[p] = "cleanup" /\ frame[p].calls > 1
        /\ host.current = Own(p)
        /\ host.releases = {Own(p)}
        /\ \E t \in Later : t > now

(***************************************************************************)
(* C20.  A failed deploy destroys no earlier work: when the body of a      *)
(* deploy has failed, no remote command having failed, no step of the      *)
(* rollback removes a release directory other than the one this            *)
(* invocation made, so every release directory there was when the deploy   *)
(* began is still there.                                                   *)
(***************************************************************************)
C20_FailedDeployKeepsEarlierReleases ==
    [][\A p \in Procs :
        (frame[p].op = "deploy" /\ frame[p].tb /\ pc[p] = "txn_exit"
            /\ obs[p].failures = 0)
        => \A r \in host.releases \ host'.releases : r = Own(p) /\ obs[p].fresh]_vars

(***************************************************************************)
(* C19.  Deploys run one at a time never leave `current` on a release      *)
(* directory that another invocation has removed: no step of the rollback  *)
(* of a failed deploy, which has not touched `current` and has not made    *)
(* the directory `current` points at, removes that directory.              *)
(***************************************************************************)
C19_SerializedDeploysKeepCurrent ==
    [][\A p \in Procs :
        (frame[p].op = "deploy" /\ frame[p].tb /\ pc[p] = "txn_exit"
            /\ host.current # None /\ host.current \in host.releases
            /\ host.current = obs[p].current0
            /\ (host.current = Own(p) => ~obs[p].fresh))
        => host'.current \in host'.releases]_vars

(***************************************************************************)
(* C15.  Failures after the body are not compensated: when symlink or      *)
(* cleanup fails in the exit of a deploy whose body succeeded, no          *)
(* registered action is invoked and the new release directory is still     *)
(* there; and when the failure is cleanup's, `current` still points at     *)
(* the new release directory.                                              *)
(***************************************************************************)
C15_PostBodyFailureNotCompensated ==
    [][\A p \in Procs :
        (frame[p].op = "deploy" /\ pc'[p] = "raised"
            /\ pc[p] \in {"symlink", "symlink_ln", "cleanup", "cleanup_rm"})
        => /\ obs'[p].invoked = <<>>
           /\ self'[p].rollback_stack = self[p].rollback_stack
           /\ Own(p) \in host'.releases
           /\ pc[p] \in {"cleanup", "cleanup_rm"}
                => (host'.current = Own(p) /\ exists_current(host'))]_vars

=============================================================================
